---- MODULE Spec2Model ----
(***************************************************************************)
(* Interactive Kaleidoscope (v1.6, src/unnamed/part_000) as a state        *)
(* machine: the colour utilities, the control mappers, the render-loop     *)
(* effect (setup, frame callback, teardown) and the palette helpers.       *)
(*                                                                         *)
(* Numbers are fixed point.  Controls, velocities, phases and angles are   *)
(* in thousandths (Milli); hue, saturation and lightness are in 1/Unit.    *)
(* Times are in milliseconds.                                              *)
(***************************************************************************)
EXTENDS Integers, Sequences, FiniteSets, TLC

Milli == 10^3
\* HSL scale: divisible by 6 so that 1/6, 1/3, 1/2 and 2/3 are exact.
Unit == 18 * 10^3

\* Math.min / Math.max / Math.abs / Math.sign
Min2(a, b) == IF a < b THEN a ELSE b
Max2(a, b) == IF a > b THEN a ELSE b
Abs(x) == IF x < 0 THEN -x ELSE x
Sign(x) == IF x > 0 THEN 1 ELSE IF x < 0 THEN -1 ELSE 0

\* a / b rounded to the nearest integer (b > 0), halves up as Math.round does
RDiv(a, b) == (2 * a + b) \div (2 * b)

\* const clamp = (x, a, b) => Math.min(b, Math.max(a, x));
clamp(x, a, b) == Min2(b, Max2(a, x))

(***************************************************************************)
(* Colour utilities.  A hex colour is the sequence of its hex digits (the  *)
(* leading '#' left out); the regular expression of hexToRgb accepts       *)
(* exactly six of them.                                                    *)
(***************************************************************************)
HexDigits == 0 .. 15
IsHex6(hex) == Len(hex) = 6 /\ \A i \in 1 .. 6 : hex[i] \in HexDigits

hexToRgb(hex) ==
  IF ~IsHex6(hex) THEN [r |-> 255, g |-> 255, b |-> 255]
  ELSE [r |-> 16 * hex[1] + hex[2],
        g |-> 16 * hex[3] + hex[4],
        b |-> 16 * hex[5] + hex[6]]

\* v.toString(16).padStart(2, '0') of clamp(Math.round(v), 0, 255); v is in 1/Unit
toHex2(v) ==
  LET c == clamp(RDiv(v, Unit), 0, 255)
  IN  <<c \div 16, c % 16>>

\* `#${to(r)}${to(b)}${to(g)}`: the source writes the blue byte before the green
rgbToHex(r, g, b) == toHex2(r) \o toHex2(b) \o toHex2(g)

\* rgbToHsl: h, s, l in 1/Unit (r, g, b are the 0..255 channel values)
rgbToHsl(r, g, b) ==
  LET mx == Max2(r, Max2(g, b))
      mn == Min2(r, Min2(g, b))
      l  == RDiv((mx + mn) * Unit, 510)
      d  == mx - mn
      s  == IF 2 * l > Unit THEN RDiv(d * Unit, 510 - mx - mn)
                            ELSE RDiv(d * Unit, mx + mn)
      h6 == IF mx = r THEN RDiv((g - b) * Unit, d) + (IF g < b THEN 6 * Unit ELSE 0)
            ELSE IF mx = g THEN RDiv((b - r) * Unit, d) + 2 * Unit
            ELSE RDiv((r - g) * Unit, d) + 4 * Unit
  IN  IF mx = mn THEN [h |-> 0, s |-> 0, l |-> l]
      ELSE [h |-> RDiv(h6, 6), s |-> s, l |-> l]

hue2rgb(p, q, t0) ==
  LET t1 == IF t0 < 0 THEN t0 + Unit ELSE t0
      t  == IF t1 > Unit THEN t1 - Unit ELSE t1
  IN  IF 6 * t < Unit THEN p + RDiv((q - p) * 6 * t, Unit)
      ELSE IF 2 * t < Unit THEN q
      ELSE IF 3 * t < 2 * Unit THEN p + RDiv((q - p) * (4 * Unit - 6 * t), Unit)
      ELSE p

\* hslToRgb: the channels times 255, in 1/Unit
hslToRgb(h, s, l) ==
  IF s = 0 THEN [r |-> l * 255, g |-> l * 255, b |-> l * 255]
  ELSE LET q == IF 2 * l < Unit THEN RDiv(l * (Unit + s), Unit)
                                ELSE l + s - RDiv(l * s, Unit)
           p == 2 * l - q
       IN  [r |-> hue2rgb(p, q, h + Unit \div 3) * 255,
            g |-> hue2rgb(p, q, h) * 255,
            b |-> hue2rgb(p, q, h - Unit \div 3) * 255]

\* s2 = clamp(s * (1 + vibrance * (1 - s)) * boost, 0, 1), boost in Milli
boostedS(s, boost) ==
  LET vib == RDiv(s * (2 * Unit + (Unit - s)), 2 * Unit)
  IN  clamp(RDiv(vib * boost, Milli), 0, Unit)

boostSaturation(hex, boost) ==
  LET rgb  == hexToRgb(hex)
      hsl  == rgbToHsl(rgb.r, rgb.g, rgb.b)
      s2   == boostedS(hsl.s, boost)
      out  == hslToRgb(hsl.h, s2, hsl.l)
  IN  rgbToHex(out.r, out.g, out.b)

\* HSL saturation of a hex colour, as boostSaturation sees it
satOf(hex) == LET rgb == hexToRgb(hex) IN rgbToHsl(rgb.r, rgb.g, rgb.b).s

(***************************************************************************)
(* Math.exp, Math.sqrt and Math.pow in fixed point.                        *)
(***************************************************************************)
Fine == 10^4

\* e^(-y) for 0 <= y <= 1 (y in Milli), in 1/Fine: the alternating power series
RECURSIVE ExpSeries(_, _, _)
ExpSeries(y, k, term) ==
  IF term = 0 \/ k > 12 THEN 0
  ELSE term - ExpSeries(y, k + 1, RDiv(term * y, k * Milli))

\* e^(-y) for y >= 0 (y in Milli), in 1/Fine: e^(-y) = e^(-y/2) * e^(-y/2)
RECURSIVE ExpFine(_)
ExpFine(y) ==
  IF y <= Milli THEN ExpSeries(y, 1, Fine)
  ELSE RDiv(ExpFine(y \div 2) * ExpFine(y - y \div 2), Fine)

\* Math.exp(-y), y >= 0 in Milli, result in Milli
ExpNeg(y) == RDiv(ExpFine(y), Fine \div Milli)

\* floor of the square root, by bisection
RECURSIVE ISqrtIter(_, _, _)
ISqrtIter(n, lo, hi) ==
  IF lo >= hi THEN lo
  ELSE LET mid == (lo + hi + 1) \div 2
       IN  IF mid * mid <= n THEN ISqrtIter(n, mid, hi)
           ELSE ISqrtIter(n, lo, mid - 1)
ISqrt(n) == ISqrtIter(n, 0, Min2(n, 46340))

\* Math.sqrt of x in Milli, result in Milli
SqrtM(x) == ISqrt(x * Milli)
MulM(a, b) == RDiv(a * b, Milli)

\* Math.pow(x, 0.75) for 0 <= x <= 1: x^(1/2) * x^(1/4)
Pow075(x) == MulM(SqrtM(x), SqrtM(SqrtM(x)))

\* Math.pow(x, 1.15) for 0 <= x <= 1: x * x^(1/8) * x^(1/64) * x^(1/128)
\* (0.15 = 1/8 + 1/64 + 1/128 + ... in binary, cut after 1/128)
Pow115(x) ==
  LET r8   == SqrtM(SqrtM(SqrtM(x)))
      r64  == SqrtM(SqrtM(SqrtM(r8)))
      r128 == SqrtM(r64)
  IN  MulM(MulM(MulM(x, r8), r64), r128)

(***************************************************************************)
(* Control mappers.                                                        *)
(***************************************************************************)
\* The steepness k is in millionths; the default is 2.4.
SliderK == 2400000

\* the Numbers NaN and Infinity (no thousandth the model computes with is as
\* large)
NaN == -2147483647
Infinity == 2147483647

\* a / b of two Numbers in thousandths, in thousandths: 0 / 0 is NaN
numDiv(a, b) ==
  IF b # 0 THEN RDiv(a * Milli, b)
  ELSE IF a = 0 THEN NaN ELSE Sign(a) * Infinity

\* Math.exp(-k * x), k in millionths and x in thousandths.  A Number carries
\* finitely many digits: the model's carry three decimals, so the exponential
\* of a k below half a thousandth is exactly 1, as Math.exp(-k) is for a
\* double k below 2^-54.
expNegKx(k, x) == ExpNeg(MulM(RDiv(k, Milli), x))

sliderGainNoClamp(x, k) ==
  LET d == Milli - expNegKx(k, Milli)
  IN  numDiv(Milli - expNegKx(k, x), d)

\* sliderGain = (x, k = 2.4) => (1 - e^(-k x)) / (1 - e^(-k)) with x clamped to 0..1
sliderGain(x, k) ==
  LET xc == clamp(x, 0, Milli)
      d  == Milli - expNegKx(k, Milli)
  IN  numDiv(Milli - expNegKx(k, xc), d)

\* sensShape = (s) => 0.22 + 0.50 * Math.pow(clamp(s, 0, 1), 1.15)
sensShape(s) == 220 + RDiv(500 * Pow115(clamp(s, 0, Milli)), Milli)

(***************************************************************************)
(* Program constants (thousandths unless said otherwise).                  *)
(***************************************************************************)
TAU == 6283
\* TAU in millionths, for theta.toFixed(6)
TauMicro == 6283185
CapPat == 1800
CapRot == 400
CapSwl == 1600
\* smoothing time constant 0.18 s and the dt clamp 0.050 s, in milliseconds
TauSmooth == 180
DtMax == 50
\* the numeric-drift bound 1e6, in thousandths
PhaseMax == 1000000000
MaxColors == 12
MinColors == 3
SegsLo == 2
SegsHi == 128
BaseSamples == 320
PerComp == 180
MinSamples == 260
\* the FPS smoothing factor 0.12 and the 60 fps default, in thousandths
FpsAlpha == 120
FpsDefault == 60000

(***************************************************************************)
(* Bounds of the model.                                                    *)
(***************************************************************************)
\* requestAnimationFrame ids handed out
MaxRaf == 4
\* effect instances (one per setup of the render-loop effect)
MaxInst == 3
\* frames of a run that only looks at the per-frame constants
MaxFrames == 1

VARIABLES
  knobs,      \* the useState controls other than colors
  colors,     \* the colour list (hex colours)
  env,        \* window / canvas layout: devicePixelRatio, client size, OffscreenCanvas
  phase,      \* "new" (constructed), "mounted", "unmounted"
  S,          \* stateRef.current
  geo,        \* geoRef.current
  off,        \* offRef.current
  canvas,     \* backing store of the visible canvas and its context transform
  dprRef,     \* dprRef.current
  rafRef,     \* rafRef.current (0: null)
  pending,    \* animation-frame callbacks requested and neither run nor cancelled
  rafNext,    \* the next id requestAnimationFrame returns
  observers,  \* effect instances whose ResizeObserver is connected
  roQueue,    \* connected observers with an observation to deliver
  inst,       \* the effect instance set up last and not torn down (0: none)
  instNext,   \* the next effect instance
  torn,       \* effect instances whose cleanup has run
  loops,      \* per effect instance: the closure of its loop (knobs, colors, last)
  pc,         \* position inside the frame callback ("idle": between callbacks)
  fr,         \* locals of the frame callback running, or of the last one
  cap         \* how many frame requests and effect instances a run may use

\* calls of the pure helpers, outside the component
VARIABLES
  hexIn, boostIn, out1, out2, stage,  \* boostSaturation, once and twice
  gain,                               \* sliderGain at 0 and at 1
  wedge                               \* drawWedge

boostVars == <<hexIn, boostIn, out1, out2, stage, gain, wedge>>
uiVars == <<knobs, colors>>
effVars == <<dprRef, canvas, rafRef, pending, rafNext, observers, roQueue,
             inst, instNext, torn, loops>>
appVars == <<knobs, colors, env, phase, S, geo, off, canvas, dprRef, rafRef,
             pending, rafNext, observers, roQueue, inst, instNext, torn, loops,
             pc, fr, cap>>
vars == <<appVars, boostVars>>

(***************************************************************************)
(* Construction: the useState / useRef initial values.                     *)
(***************************************************************************)
Knobs0 ==
  [segments |-> 12, complexity |-> 6, run |-> TRUE, patternUI |-> 600,
   rotationUI |-> 300, swirlUI |-> 500, sensitivityUI |-> 600,
   satBoost |-> 1700, dprCap |-> 1750]
Colors0 == << <<15,15,0,0,5,5>>, <<0,0,13,2,15,15>>, <<15,15,13,1,6,6>> >>
White == <<15,15,15,15,15,15>>
State0 ==
  [t |-> 0, rot |-> 0, swirl |-> 0, patV |-> 400, rotV |-> 120, swlV |-> 400,
   fps |-> FpsDefault, renderMs |-> 0]
Geo0 == [key |-> <<>>, tab |-> <<>>]
Off0 == [kind |-> "none", size |-> 0, dpr |-> 1000, px |-> 0]
Frame0 ==
  [inst |-> 0, id |-> 0, dtRaw |-> 0, dt |-> 0, tgt |-> <<>>, radius |-> 0, segs |-> 0,
   L |-> 0, rebuilt |-> FALSE, size |-> 0, realloc |-> FALSE, painted |-> FALSE,
   stamps |-> 0, copies |-> <<>>, ctx |-> <<>>, threw |-> FALSE, requests |-> 0,
   steps |-> <<>>]

\* a layout: OffscreenCanvas present, devicePixelRatio 2, an 800 x 600 canvas
Env0 == [offscreen |-> TRUE, dpr |-> 2000, w |-> 800, h |-> 600, iw |-> 1024, ih |-> 768]

\* the boost scratch variables at rest
Gain0 == [k |-> 0, at0 |-> 0, at1 |-> 0, done |-> {}]
Wedge0 == [n |-> 0, L |-> 0, cIdx |-> 0, paths |-> <<>>, strokes |-> <<>>]
BoostOff ==
  /\ hexIn = <<>>
  /\ boostIn = 0
  /\ out1 = <<>>
  /\ out2 = <<>>
  /\ stage = "off"
BoostIdle ==
  /\ BoostOff
  /\ gain = Gain0
  /\ wedge = Wedge0

Caps == [raf |-> MaxRaf, inst |-> MaxInst]

Constructed(e) ==
  /\ knobs = Knobs0
  /\ colors = Colors0
  /\ env = e
  /\ phase = "new"
  /\ S = State0
  /\ geo = Geo0
  /\ off = Off0
  /\ canvas = [width |-> 300, height |-> 150, xf |-> 1000]
  /\ dprRef = 1000
  /\ rafRef = 0
  /\ pending = {}
  /\ rafNext = 1
  /\ observers = {}
  /\ roQueue = {}
  /\ inst = 0
  /\ instNext = 1
  /\ torn = {}
  /\ loops = <<>>
  /\ pc = "idle"
  /\ fr = Frame0

(***************************************************************************)
(* The render-loop effect: fit, setup, cleanup.                            *)
(***************************************************************************)
\* const dpr = Math.min(dprCap, window.devicePixelRatio || 1)
fitDpr(k, e) == Min2(k.dprCap, IF e.dpr = 0 THEN Milli ELSE e.dpr)

\* fit(): the backing store and the context transform for pixel ratio dpr
fit(k, e) ==
  LET dpr  == fitDpr(k, e)
      cssW == IF e.w = 0 THEN e.iw ELSE e.w
      cssH == IF e.h = 0 THEN e.ih ELSE e.h
  IN  [width |-> (cssW * dpr) \div Milli, height |-> (cssH * dpr) \div Milli,
       xf |-> dpr]

\* if (rafRef.current) cancelAnimationFrame(rafRef.current)
cancelPending(p, rref) == IF rref # 0 THEN {c \in p : c.id # rref} ELSE p

effectCleanupNoCancel(p, obs, rref, i) ==
  [pending |-> p, observers |-> obs \ {i}]

\* the effect's cleanup for instance i: cancel the scheduled frame, ro.disconnect()
effectCleanup(p, obs, rref, i) ==
  [pending |-> cancelPending(p, rref), observers |-> obs \ {i}]

\* closures still referenced after a step: the live loop, scheduled callbacks,
\* connected observers
Referenced(p, obs, live) == {c.inst : c \in p} \cup obs \cup (live \ {0})

useRefStateFresh(cur) == State0

\* const stateRef = useRef({...}): every render after the first returns the object
\* of the first render, whatever the initial value passed
useRefState(cur) == cur

\* cleanup of the live instance (if any), then setup with knobs k, colours c, at time t0
Restart(k, c, t0) ==
  LET i   == instNext
      cl  == IF inst = 0 THEN [pending |-> pending, observers |-> observers]
             ELSE effectCleanup(pending, observers, rafRef, inst)
      p2  == cl.pending \cup {[id |-> rafNext, inst |-> i]}
      ob2 == cl.observers \cup {i}
      new == [knobs |-> k, colors |-> c, last |-> t0]
  IN  /\ rafNext <= cap.raf
      /\ instNext <= cap.inst
      /\ pending' = p2
      /\ rafRef' = rafNext
      /\ rafNext' = rafNext + 1
      /\ observers' = ob2
      /\ roQueue' = (roQueue \cap cl.observers) \cup {i}
      /\ torn' = IF inst = 0 THEN torn ELSE torn \cup {inst}
      /\ inst' = i
      /\ instNext' = i + 1
      /\ loops' = [j \in Referenced(p2, ob2, {i}) |-> IF j = i THEN new ELSE loops[j]]
      /\ dprRef' = fitDpr(k, env)
      /\ canvas' = fit(k, env)

\* first commit: the effect runs for the first time
Mount(t0) ==
  /\ phase = "new"
  /\ phase' = "mounted"
  /\ Restart(knobs, colors, t0)
  /\ UNCHANGED <<knobs, colors, env, S, geo, off, pc, fr, boostVars, cap>>

\* the component is removed: the cleanup runs and nothing is set up
Unmount ==
  /\ phase = "mounted"
  /\ pc = "idle"
  /\ phase' = "unmounted"
  /\ LET cl == effectCleanup(pending, observers, rafRef, inst)
     IN  /\ pending' = cl.pending
         /\ observers' = cl.observers
         /\ roQueue' = roQueue \cap cl.observers
         /\ loops' = [j \in Referenced(cl.pending, cl.observers, {}) |-> loops[j]]
  /\ torn' = torn \cup {inst}
  /\ inst' = 0
  /\ UNCHANGED <<knobs, colors, env, S, geo, off, canvas, dprRef, rafRef, rafNext,
                 instNext, pc, fr, boostVars, cap>>

\* a setter of a numeric/boolean control with a new value: re-render, cleanup, setup
SetKnob(name, v, t0) ==
  /\ phase = "mounted"
  /\ pc = "idle"
  /\ knobs[name] # v
  /\ knobs' = [knobs EXCEPT ![name] = v]
  /\ Restart([knobs EXCEPT ![name] = v], colors, t0)
  /\ S' = useRefState(S)
  /\ UNCHANGED <<colors, env, phase, geo, off, pc, fr, boostVars, cap>>


(***************************************************************************)
(* The animation integrator (the `if (run)` block of loop).                *)
(***************************************************************************)
\* JavaScript %: the remainder has the sign of the dividend
JsRem(a, b) == IF a >= 0 THEN a % b ELSE -((-a) % b)

\* if (S.rot > TAU || S.rot < -TAU) S.rot = ((S.rot % TAU) + TAU) % TAU
foldRotNone(rot) == rot

foldRot(rot) ==
  IF rot > TAU \/ rot < -TAU THEN JsRem(JsRem(rot, TAU) + TAU, TAU) ELSE rot

\* if (x > 1e6 || x < -1e6) x = 0
boundPhaseNone(x) == x

boundPhase(x) == IF x > PhaseMax \/ x < -PhaseMax THEN 0 ELSE x

\* sens and the three target velocities
targets(k) ==
  LET sens == sensShape(k.sensitivityUI)
  IN  [sens |-> sens,
       pat  |-> MulM(MulM(CapPat, sens), sliderGain(k.patternUI, SliderK)),
       rot  |-> MulM(MulM(CapRot, sens), sliderGain(Abs(k.rotationUI), SliderK))
                  * Sign(k.rotationUI),
       swl  |-> MulM(MulM(CapSwl, sens), sliderGain(k.swirlUI, SliderK))]

\* const a = 1 - Math.exp(-dt / 0.18), dt in milliseconds
smoothing(dt) == Milli - ExpNeg(RDiv(dt * Milli, TauSmooth))

runningAlways(k) == TRUE

\* if (run) { ... }
running(k) == k.run

integrate(s, k, dt) ==
  IF ~running(k) THEN s
  ELSE LET tg   == targets(k)
           a    == smoothing(dt)
           patV == s.patV + MulM(tg.pat - s.patV, a)
           rotV == s.rotV + MulM(tg.rot - s.rotV, a)
           swlV == s.swlV + MulM(tg.swl - s.swlV, a)
       IN  [s EXCEPT !.patV = patV, !.rotV = rotV, !.swlV = swlV,
                     !.t = boundPhase(s.t + RDiv(dt * patV, Milli)),
                     !.rot = foldRot(s.rot + RDiv(dt * rotV, Milli)),
                     !.swirl = boundPhase(s.swirl + RDiv(dt * swlV, Milli))]

(***************************************************************************)
(* Per-frame constants and the geometry cache.                             *)
(***************************************************************************)
\* segments|0: ToInt32 of an integer of the 32-bit range is that integer
toInt32(x) == x

\* const segs = clamp(segments|0, 2, 128)
segsOf(k) == clamp(toInt32(k.segments), SegsLo, SegsHi)

\* theta.toFixed(6) for theta = TAU / segs: millionths, rounded
thetaFixed6(segs) == RDiv(TauMicro, segs)

\* segTaper = Math.pow(clamp(theta / (TAU / 12), 0.25, 1), 0.75)
segTaper(segs) == Pow075(clamp(RDiv(12 * Milli, segs), 250, Milli))

\* Math.floor((base + perComp * complexity) * segTaper)
taperedSamples(k) ==
  ((BaseSamples + PerComp * k.complexity) * segTaper(segsOf(k))) \div Milli

sampleCountNoFloor(k) == taperedSamples(k)

\* L = Math.max(260, Math.floor((base + perComp * complexity) * segTaper))
sampleCount(k) == Max2(MinSamples, taperedSamples(k))

\* `${L}|${theta.toFixed(6)}|${complexity}`
geoKey(k) == <<sampleCount(k), thetaFixed6(segsOf(k)), k.complexity>>

\* the geometry cache after the `if (G.key !== key)` block, in callback id: the
\* tables are new arrays (told apart by the callback that allocated them) whose
\* contents are functions of L, theta = TAU / segs and complexity
buildGeoAlways(g, k, id) ==
  [key |-> geoKey(k),
   tab |-> [L |-> sampleCount(k), segs |-> segsOf(k),
            complexity |-> k.complexity, builtIn |-> id]]

buildGeo(g, k, id) ==
  IF g.key # geoKey(k)
  THEN [key |-> geoKey(k),
        tab |-> [L |-> sampleCount(k), segs |-> segsOf(k),
                 complexity |-> k.complexity, builtIn |-> id]]
  ELSE g

(***************************************************************************)
(* renderFrame: the offscreen wedge buffer.                                *)
(***************************************************************************)
\* const size = Math.ceil(radius * 2), radius in thousandths of a pixel
wedgeSize(radius) == (2 * radius + Milli - 1) \div Milli

\* if (!off.canvas || off.size !== size || off.dpr !== dpr)
needsAlloc(o, size, dpr) == o.kind = "none" \/ o.size # size \/ o.dpr # dpr

\* a canvas dimension set to size * dpr (converted to an unsigned integer)
pixels(size, dpr) == (size * dpr) \div Milli

(***************************************************************************)
(* renderFrame: the drawing state of the visible canvas' context.  A       *)
(* transform is its scale (thousandths), its rotation (millionths of a     *)
(* radian), whether it is flipped vertically, and its origin.              *)
(***************************************************************************)
\* the context as fit() leaves it: setTransform(dpr, 0, 0, dpr, 0, 0), nothing saved
ctxOf(scale) ==
  [xf |-> [scale |-> scale, rot |-> 0, flip |-> FALSE, at |-> "corner"], stack |-> <<>>]

\* ctx.save() / ctx.restore()
ctxSave(c) == [c EXCEPT !.stack = Append(@, c.xf)]
ctxRestore(c) ==
  IF c.stack = <<>> THEN c
  ELSE [xf |-> c.stack[Len(c.stack)], stack |-> SubSeq(c.stack, 1, Len(c.stack) - 1)]

\* ctx.setTransform(s, 0, 0, s, 0, 0)
ctxSetTransform(c, scale) == [c EXCEPT !.xf = ctxOf(scale).xf]
\* ctx.translate(clientWidth / 2, clientHeight / 2)
ctxTranslate(c) == [c EXCEPT !.xf.at = "centre"]
\* ctx.rotate(a), a in millionths
ctxRotate(c, a) == [c EXCEPT !.xf.rot = @ + a]
\* ctx.scale(1, -1)
ctxFlip(c) == [c EXCEPT !.xf.flip = ~@]

\* the clear in device pixels: save, setTransform(1, 0, 0, 1, 0, 0), clearRect, restore
clearSafely(c) == ctxRestore(ctxSetTransform(ctxSave(c), Milli))

\* iteration i of the stamping loop up to its drawImage: save, rotate by
\* i * theta, flip if i is odd
stampDraw(c, i, theta) ==
  IF i % 2 # 0 THEN ctxFlip(ctxRotate(ctxSave(c), i * theta))
  ELSE ctxRotate(ctxSave(c), i * theta)

\* the iterations lo <= i < hi of the stamping loop, each ending with restore:
\* the transforms under which they draw the wedge bitmap, and the context they
\* leave (the range is halved to keep the evaluation shallow)
RECURSIVE stampLoop(_, _, _, _)
stampLoop(c, lo, hi, theta) ==
  IF ~(lo < hi) THEN [copies |-> <<>>, ctx |-> c]
  ELSE IF hi = lo + 1
       THEN [copies |-> << [rot |-> stampDraw(c, lo, theta).xf.rot,
                            flip |-> stampDraw(c, lo, theta).xf.flip] >>,
             ctx |-> ctxRestore(stampDraw(c, lo, theta))]
  ELSE LET left == stampLoop(c, lo, (lo + hi) \div 2, theta)
           right == stampLoop(left.ctx, (lo + hi) \div 2, hi, theta)
       IN  [copies |-> left.copies \o right.copies, ctx |-> right.ctx]

\* the context at the start of the stamping loop: save, translate to the centre,
\* rotate(S.rot)
stampBase(c, rot) == ctxRotate(ctxTranslate(ctxSave(c)), rot * Milli)

\* save, translate, rotate(S.rot), the stamping loop, restore
stampAll(c, rot, segments, theta) ==
  [copies |-> stampLoop(stampBase(c, rot), 0, segments, theta).copies,
   ctx |-> ctxRestore(stampLoop(stampBase(c, rot), 0, segments, theta).ctx)]

(***************************************************************************)
(* The frame callback loop(now), one action per step.                      *)
(***************************************************************************)
K == loops[fr.inst].knobs

\* const dtRaw = Math.max(0, (now - last) / 1000), in milliseconds
dtRawOf(now, last) == Max2(0, now - last)

dtOfNoMin(dtRaw) == dtRaw

\* const dt = Math.min(0.050, dtRaw), in milliseconds
dtOf(dtRaw) == Min2(DtMax, dtRaw)

\* dtRaw, dt, last = now
loopClampDt(now) ==
  /\ pc = "idle"
  /\ rafNext <= cap.raf
  /\ \E cb \in pending :
       LET dtRaw == dtRawOf(now, loops[cb.inst].last)
       IN  /\ pending' = pending \ {cb}
           /\ fr' = [Frame0 EXCEPT !.inst = cb.inst, !.id = cb.id, !.dtRaw = dtRaw,
                                   !.dt = dtOf(dtRaw), !.steps = <<"dt">>]
           /\ loops' = [loops EXCEPT ![cb.inst].last = now]
  /\ pc' = "integrate"
  /\ UNCHANGED <<knobs, colors, env, phase, S, geo, off, canvas, dprRef, rafRef,
                 rafNext, observers, roQueue, inst, instNext, torn, boostVars, cap>>

loopIntegrate ==
  /\ pc = "integrate"
  /\ S' = integrate(S, K, fr.dt)
  /\ fr' = [fr EXCEPT !.tgt = IF K.run THEN targets(K) ELSE <<>>,
                      !.steps = Append(@, "integrate")]
  /\ pc' = "dims"
  /\ UNCHANGED <<uiVars, env, phase, geo, off, effVars, boostVars, cap>>

\* w, h, radius, segs, theta, L
loopDims ==
  /\ pc = "dims"
  /\ fr' = [fr EXCEPT !.radius = Min2(env.w, env.h) * 550,
                      !.segs = segsOf(K),
                      !.L = sampleCount(K),
                      !.steps = Append(@, "dims")]
  /\ pc' = "geo"
  /\ UNCHANGED <<uiVars, env, phase, S, geo, off, effVars, boostVars, cap>>

loopGeo ==
  /\ pc = "geo"
  /\ geo' = buildGeo(geo, K, fr.id)
  /\ fr' = [fr EXCEPT !.rebuilt = (geo.key # geoKey(K)),
                      !.steps = Append(@, "geo")]
  /\ pc' = "render"
  /\ UNCHANGED <<uiVars, env, phase, S, off, effVars, boostVars, cap>>

\* renderFrame(...): clear, (re)allocate the wedge buffer, paint the wedge, stamp it.
\* Without window.OffscreenCanvas the `offCanvas instanceof OffscreenCanvas` test
\* of an allocation throws a ReferenceError, which ends the callback.
loopRender ==
  /\ pc = "render"
  /\ LET size  == wedgeSize(fr.radius)
         alloc == needsAlloc(off, size, dprRef)
         clr   == clearSafely(ctxOf(canvas.xf))
         st    == stampAll(clr, S.rot, fr.segs, thetaFixed6(fr.segs))
     IN  IF alloc /\ ~env.offscreen
         THEN /\ fr' = [fr EXCEPT !.size = size, !.threw = TRUE, !.ctx = clr,
                                  !.steps = Append(@, "throw")]
              /\ pc' = "idle"
              /\ off' = off
              /\ canvas' = [canvas EXCEPT !.xf = clr.xf.scale]
         ELSE /\ off' = IF alloc
                        THEN [kind |-> "offscreen", size |-> size, dpr |-> dprRef,
                              px |-> pixels(size, dprRef)]
                        ELSE off
              /\ fr' = [fr EXCEPT !.size = size, !.realloc = alloc,
                                  !.painted = TRUE, !.stamps = Len(st.copies),
                                  !.copies = st.copies, !.ctx = st.ctx,
                                  !.steps = Append(@, "render")]
              /\ pc' = "stats"
              /\ canvas' = [canvas EXCEPT !.xf = st.ctx.xf.scale]
  /\ UNCHANGED <<uiVars, env, phase, S, geo, dprRef, rafRef, pending, rafNext,
                 observers, roQueue, inst, instNext, torn, loops, boostVars, cap>>

\* S.renderMs = performance.now() - t0 (ms: the measured duration), then the FPS EMA
loopStats(ms) ==
  /\ pc = "stats"
  /\ LET instFps == IF fr.dtRaw > 0 THEN RDiv(Milli * Milli, fr.dtRaw) ELSE FpsDefault
     IN  S' = [S EXCEPT !.renderMs = ms,
                        !.fps = S.fps + MulM(instFps - S.fps, FpsAlpha)]
  /\ fr' = [fr EXCEPT !.steps = Append(@, "stats")]
  /\ pc' = "request"
  /\ UNCHANGED <<uiVars, env, phase, geo, off, effVars, boostVars, cap>>

loopRequestNoStore ==
  /\ pc = "request"
  /\ rafNext' = rafNext + 1
  /\ pending' = pending \cup {[id |-> rafNext, inst |-> fr.inst]}
  /\ fr' = [fr EXCEPT !.requests = @ + 1, !.steps = Append(@, "request")]
  /\ pc' = "idle"
  /\ UNCHANGED <<uiVars, env, phase, S, geo, off, canvas, dprRef, rafRef, observers,
                 roQueue, inst, instNext, torn, loops, boostVars, cap>>

\* rafRef.current = requestAnimationFrame(loop)
loopRequest ==
  /\ pc = "request"
  /\ rafRef' = rafNext
  /\ rafNext' = rafNext + 1
  /\ pending' = pending \cup {[id |-> rafNext, inst |-> fr.inst]}
  /\ fr' = [fr EXCEPT !.requests = @ + 1, !.steps = Append(@, "request")]
  /\ pc' = "idle"
  /\ UNCHANGED <<uiVars, env, phase, S, geo, off, canvas, dprRef, observers,
                 roQueue, inst, instNext, torn, loops, boostVars, cap>>

(***************************************************************************)
(* The environment: layout changes and the ResizeObserver.                 *)
(***************************************************************************)
\* the canvas is laid out at another size: connected observers are notified
EnvResize(w, h) ==
  /\ pc = "idle"
  /\ <<env.w, env.h>> # <<w, h>>
  /\ env' = [env EXCEPT !.w = w, !.h = h]
  /\ roQueue' = observers
  /\ UNCHANGED <<uiVars, phase, S, geo, off, canvas, dprRef, rafRef, pending,
                 rafNext, observers, inst, instNext, torn, loops, pc, fr, boostVars, cap>>

\* window.devicePixelRatio changes (zoom, another screen)
EnvDpr(d) ==
  /\ pc = "idle"
  /\ env.dpr # d
  /\ env' = [env EXCEPT !.dpr = d]
  /\ UNCHANGED <<uiVars, phase, S, geo, off, effVars, pc, fr, boostVars, cap>>

\* a connected observer delivers its observation: fit() of its effect instance
RoNotify ==
  /\ pc = "idle"
  /\ \E i \in roQueue :
       /\ roQueue' = roQueue \ {i}
       /\ dprRef' = fitDpr(loops[i].knobs, env)
       /\ canvas' = fit(loops[i].knobs, env)
  /\ UNCHANGED <<uiVars, env, phase, S, geo, off, rafRef, pending, rafNext,
                 observers, inst, instNext, torn, loops, pc, fr, boostVars, cap>>

(***************************************************************************)
(* UI helpers: the colour list.                                            *)
(***************************************************************************)
addColorOfLate(cs) == IF Len(cs) > MaxColors THEN cs ELSE Append(cs, White)

\* setColors((cs) => (cs.length >= 12 ? cs : [...cs, '#ffffff']))
addColorOf(cs) == IF Len(cs) >= MaxColors THEN cs ELSE Append(cs, White)

\* setColors((cs) => (cs.length <= 3 ? cs : cs.slice(0, -1)))
removeColorOf(cs) == IF Len(cs) <= MinColors THEN cs ELSE SubSeq(cs, 1, Len(cs) - 1)

\* setColors((cs) => cs.map((c, i) => (i === index ? value : c))), index from 0
updateColorOf(cs, index, value) ==
  [i \in 1 .. Len(cs) |-> IF i - 1 = index THEN value ELSE cs[i]]

\* an updater that returns the same array is no state change: nothing re-renders
addColor(t0) ==
  /\ phase = "mounted"
  /\ pc = "idle"
  /\ colors' = addColorOf(colors)
  /\ IF addColorOf(colors) = colors
     THEN UNCHANGED <<effVars, S>>
     ELSE Restart(knobs, addColorOf(colors), t0) /\ S' = useRefState(S)
  /\ UNCHANGED <<knobs, env, phase, geo, off, pc, fr, boostVars, cap>>

removeColor(t0) ==
  /\ phase = "mounted"
  /\ pc = "idle"
  /\ colors' = removeColorOf(colors)
  /\ IF removeColorOf(colors) = colors
     THEN UNCHANGED <<effVars, S>>
     ELSE Restart(knobs, removeColorOf(colors), t0) /\ S' = useRefState(S)
  /\ UNCHANGED <<knobs, env, phase, geo, off, pc, fr, boostVars, cap>>

\* map always returns a new array: the effect is torn down and set up again
updateColor(index, value, t0) ==
  /\ phase = "mounted"
  /\ pc = "idle"
  /\ colors' = updateColorOf(colors, index, value)
  /\ Restart(knobs, updateColorOf(colors, index, value), t0)
  /\ S' = useRefState(S)
  /\ UNCHANGED <<knobs, env, phase, geo, off, pc, fr, boostVars, cap>>

(***************************************************************************)
(* The component's life: mount, frames, control changes, layout changes,   *)
(* unmount.                                                                *)
(***************************************************************************)
\* the timestamps handed to loop (ms); the timestamps of successive callbacks
\* need not increase
Times == {0, 20, 100}
\* performance.now() at a setup (ms)
SetupTimes == {0, 20}
\* measured render durations (ms)
RenderTimes == {3}
EnvInputs ==
  { [offscreen |-> o, dpr |-> d, w |-> 800, h |-> 600, iw |-> 1024, ih |-> 768] :
      o \in BOOLEAN, d \in {1000, 2000} }
SegmentInputs == {12, 24}
ComplexityInputs == {6, 9}

Init ==
  /\ BoostIdle
  /\ cap = Caps
  /\ \E e \in EnvInputs : Constructed(e)

mount == \E t0 \in SetupTimes : Mount(t0)
loop == \E now \in Times : loopClampDt(now)
stats == \E ms \in RenderTimes : loopStats(ms)
setSegments == \E v \in SegmentInputs, t0 \in SetupTimes : SetKnob("segments", v, t0)
setComplexity == \E v \in ComplexityInputs, t0 \in SetupTimes : SetKnob("complexity", v, t0)
setRun == \E v \in BOOLEAN, t0 \in SetupTimes : SetKnob("run", v, t0)
resize == \E w \in {800, 400} : EnvResize(w, 600)

Next ==
  \/ mount
  \/ Unmount
  \/ loop
  \/ loopIntegrate
  \/ loopDims
  \/ loopGeo
  \/ loopRender
  \/ stats
  \/ loopRequest
  \/ setSegments
  \/ setComplexity
  \/ setRun
  \/ resize
  \/ RoNotify

Spec == Init /\ [][Next]_vars

(***************************************************************************)
(* Claims checked under Spec.                                              *)
(***************************************************************************)
FrameOrder == <<"dt", "integrate", "dims", "geo", "render", "stats", "request">>
IsPrefix(a, b) == Len(a) <= Len(b) /\ \A i \in 1 .. Len(a) : a[i] = b[i]

\* C5: every frame callback performs clamp dt, integrate, recompute the per-frame
\* constants, geometry cache, render, statistics in this order and then requests
\* the next frame, exactly once per frame.
C5_FrameOrder ==
  /\ IsPrefix(fr.steps, FrameOrder)
  /\ (pc = "idle" /\ fr.steps # <<>>) => (fr.steps = FrameOrder /\ fr.requests = 1)

\* C6: once the cleanup of an effect instance has run, none of its frame callbacks
\* is scheduled or running and its resize observer is disconnected with nothing
\* left to deliver, so neither its loop nor its fit runs again.
C6_Teardown ==
  /\ \A c \in pending : c.inst \notin torn
  /\ observers \cap torn = {}
  /\ roQueue \cap torn = {}
  /\ pc # "idle" => fr.inst \notin torn

\* C6 witness: a frame callback of a later instance runs after a teardown, and
\* the component has been unmounted
C6_Witness == torn # {} /\ pc = "stats" /\ fr.inst = inst
C6_WitnessUnmounted == phase = "unmounted" /\ Cardinality(torn) >= 2

\* C7: the geometry cache is rebuilt in exactly the frames whose key (L,
\* theta.toFixed(6), complexity) differs from the stored key, the first frame
\* included; every other frame, and every step that is not the cache step of a
\* frame (control changes and loop restarts included), leaves the key and the
\* tables as they are.
C7_GeoCache ==
  [][ IF pc = "geo"
      THEN IF geo.key # <<sampleCount(K), thetaFixed6(segsOf(K)), K.complexity>>
           THEN /\ geo'.key = <<sampleCount(K), thetaFixed6(segsOf(K)), K.complexity>>
                /\ geo'.tab.builtIn = fr.id
                /\ fr'.rebuilt
           ELSE geo' = geo /\ ~fr'.rebuilt
      ELSE geo' = geo ]_vars

\* C7 witness: after a control change restarted the loop, a frame finds the key
\* unchanged and reuses the tables an earlier instance built
C7_Witness ==
  /\ pc = "render"
  /\ ~fr.rebuilt
  /\ fr.inst > 1
  /\ geo.tab.builtIn < fr.id

\* C8: the wedge buffer is reallocated in a frame iff none exists or its recorded
\* size or pixel ratio differs from the frame's; whenever the wedge is painted the
\* recorded size and ratio are the current ones; the buffer is cleared and
\* repainted in every frame.
C8_WedgeBuffer ==
  Len(fr.steps) >= 5 =>
    /\ fr.painted
    /\ pc \in {"stats", "request"} =>
         (off.kind # "none" /\ off.size = fr.size /\ off.dpr = dprRef)

\* C11: in a window without OffscreenCanvas a frame that allocates the wedge
\* buffer raises no error and leaves a standard canvas element of the frame's
\* pixel size as the buffer; the frame is rendered.
C11_CanvasFallback ==
  ~env.offscreen =>
    /\ ~fr.threw
    /\ pc \in {"stats", "request"} =>
         /\ fr.painted
         /\ off.kind = "canvas"
         /\ off.px = pixels(fr.size, dprRef)

\* C14: whatever the timestamps of the callbacks (long gaps, timestamps that do
\* not increase), the delta-time a frame hands to the integrator lies in
\* [0, 0.050] seconds.
C14_DtClamped ==
  /\ 0 <= fr.dt /\ fr.dt <= 50
  /\ [][pc = "integrate" => S' = integrate(S, K, Max2(0, Min2(50, fr.dt)))]_vars

\* C14 witness: a frame 100 ms after the last one integrates with dt = 50 ms
C14_Witness == pc = "dims" /\ fr.dtRaw = 100 /\ fr.dt = 50 /\ K.run

\* C16: the render step of every frame copies the wedge bitmap exactly segs
\* times, segs the segment control clamped to 2..128 and the wedge angle
\* 2 pi / segs: copy i is rotated by the global rotation plus i times the wedge
\* angle and flipped exactly when i is odd, the copies span one turn, and the
\* context's transform after the frame is the one before it.
C16_Stamps ==
  /\ pc \in {"stats", "request"} => fr.segs = Min2(128, Max2(2, K.segments))
  /\ Len(fr.steps) >= 5 =>
    /\ Len(fr.copies) = fr.segs
    /\ \A n \in 1 .. Len(fr.copies) :
         /\ fr.copies[n].rot = S.rot * Milli + (n - 1) * RDiv(TauMicro, fr.segs)
         /\ fr.copies[n].flip = ((n - 1) % 2 = 1)
    /\ Abs(fr.segs * RDiv(TauMicro, fr.segs) - TauMicro) <= fr.segs
    /\ fr.ctx = ctxOf(fr.ctx.xf.scale)
    /\ pc \in {"stats", "request"} => fr.ctx = ctxOf(dprRef) /\ canvas.xf = dprRef

\* the fields of the animation state that the integrator advances
AnimFields(s) == <<s.t, s.rot, s.swirl, s.patV, s.rotV, s.swlV>>

\* C17: t, rot, swirl and the smoothed velocities change only in the integration
\* step of a frame, by the integrator (its folds and clamps included); a step that
\* tears the effect down and sets it up again (a new loop instance) leaves them
\* as the last frame left them.
C17_StateKept ==
  /\ [][AnimFields(S') # AnimFields(S)
          => pc = "integrate" /\ S' = integrate(S, K, fr.dt)]_vars
  /\ [][instNext' # instNext => AnimFields(S') = AnimFields(S)]_vars

\* C17 witness: the effect was re-run after a frame that advanced the state, and
\* the state is still the advanced one
C17_Witness ==
  /\ pc = "idle" /\ inst > 1 /\ fr.inst > 0 /\ fr.inst < inst
  /\ S.t > State0.t /\ S.rot # State0.rot /\ S.swirl # State0.swirl

\* C18: at most one frame callback is scheduled at any moment, it belongs to the
\* live loop instance and rafRef holds its id; while a callback runs none is
\* scheduled and the running callback is the live instance's, so no two loops
\* integrate the shared state between two schedulings.
C18_SingleLoop ==
  /\ Cardinality(pending) <= 1
  /\ \A c \in pending : c.id = rafRef /\ c.inst = inst
  /\ pc # "idle" => pending = {} /\ fr.inst = inst
  /\ [][pc = "integrate" /\ pc' = "dims" => pending' = {} /\ fr'.inst = inst']_vars

\* C18 witness: after a control change tore a loop down, the new instance has
\* run a whole frame and its next callback is the only one scheduled
C18_Witness ==
  /\ pc = "idle" /\ torn # {} /\ fr.inst = inst /\ fr.requests = 1
  /\ pending = {[id |-> rafRef, inst |-> inst]}

(***************************************************************************)
(* The integrator over long runs.  The initial states are those of a       *)
(* mounted component between two frames: as mounted (t = rot = swirl = 0)  *)
(* or as a long run leaves the phases, next to their bounds.               *)
(***************************************************************************)
\* a mounted component between two frames: knobs k, colours c, layout e,
\* animation state s, the loop of the first effect instance scheduled
Running(k, c, e, s) ==
  /\ knobs = k
  /\ colors = c
  /\ env = e
  /\ phase = "mounted"
  /\ S = s
  /\ geo = buildGeo(Geo0, k, 0)
  /\ off = [kind |-> "offscreen", size |-> wedgeSize(Min2(e.w, e.h) * 550),
            dpr |-> fitDpr(k, e),
            px |-> pixels(wedgeSize(Min2(e.w, e.h) * 550), fitDpr(k, e))]
  /\ canvas = fit(k, e)
  /\ dprRef = fitDpr(k, e)
  /\ rafRef = 1
  /\ pending = {[id |-> 1, inst |-> 1]}
  /\ rafNext = 2
  /\ observers = {1}
  /\ roQueue = {}
  /\ inst = 1
  /\ instNext = 2
  /\ torn = {}
  /\ loops = [j \in {1} |-> [knobs |-> k, colors |-> c, last |-> 0]]
  /\ pc = "idle"
  /\ fr = Frame0

\* distance of the long-run phases from their bounds (thousandths)
RotNearPos == TAU - 16
RotNearNeg == 1 - TAU
PhaseNear == PhaseMax - 10
RotationInputs == {300, -1000}
SensitivityInputs == {600, 1000}

AnimInit ==
  /\ BoostIdle
  /\ cap = Caps
  /\ \E r \in {0, RotNearPos, RotNearNeg}, ph \in {0, PhaseNear},
        ru \in RotationInputs, se \in SensitivityInputs :
       Running([Knobs0 EXCEPT !.rotationUI = ru, !.sensitivityUI = se], Colors0, Env0,
               [State0 EXCEPT !.t = ph, !.rot = r, !.swirl = ph])

setRotationUI == \E v \in RotationInputs, t0 \in SetupTimes : SetKnob("rotationUI", v, t0)

AnimNext ==
  \/ loop
  \/ loopIntegrate
  \/ loopDims
  \/ loopGeo
  \/ loopRender
  \/ stats
  \/ loopRequest
  \/ setRun
  \/ setRotationUI

SpecAnim == AnimInit /\ [][AnimNext]_vars

InTurn(x) == 0 <= x /\ x < TAU

\* C1: starting from rot = 0, S.rot lies in [0, 2 pi) after every frame: a frame
\* that starts with rot in [0, 2 pi) ends with rot in [0, 2 pi).
C1_RotInTurn == [][InTurn(S.rot) => InTurn(S'.rot)]_vars

\* C1 as amended: S.rot lies in [-2 pi, 2 pi] after every frame.
C1_RotBounded == -TAU <= S.rot /\ S.rot <= TAU

\* C1 witnesses: a frame took rot past 2 pi, or past -2 pi, and folded it
C1_WitnessFold ==
  /\ pc = "dims"
  /\ S.rotV > 0
  /\ InTurn(S.rot)
  /\ S.rot < RDiv(fr.dt * S.rotV, Milli)
C1_WitnessFoldNeg ==
  /\ pc = "dims"
  /\ S.rotV < 0
  /\ InTurn(S.rot)
  /\ S.rot - TAU > RDiv(fr.dt * S.rotV, Milli)

PhasesOf(s) == <<s.t, s.rot, s.swirl, s.patV, s.rotV, s.swlV>>

\* C2: while run is false, no step (frame callbacks with any delta-time, control
\* changes) changes t, rot, swirl, patV, rotV or swlV.
C2_PausedHolds ==
  [][(~knobs.run /\ ~knobs'.run) => PhasesOf(S') = PhasesOf(S)]_vars

\* C2 witness: a paused frame with a positive delta-time has passed its
\* integration step
C2_Witness == pc = "dims" /\ ~K.run /\ fr.dt > 0 /\ fr.inst > 1

\* C9: after every frame |t| <= 1e6 and |swirl| <= 1e6.
C9_PhasesBounded ==
  /\ -PhaseMax <= S.t /\ S.t <= PhaseMax
  /\ -PhaseMax <= S.swirl /\ S.swirl <= PhaseMax

\* C9 witness: a running frame with a positive step left t at 0 (the reset), and
\* likewise swirl
C9_Witness ==
  /\ pc = "dims"
  /\ K.run
  /\ RDiv(fr.dt * S.patV, Milli) > 0
  /\ RDiv(fr.dt * S.swlV, Milli) > 0
  /\ S.t = 0
  /\ S.swirl = 0

(***************************************************************************)
(* The controls as the loop uses them.  The state hooks hold whatever      *)
(* number their setter was given; the sliders offer segments 3..64,        *)
(* complexity 1..16, the normalised controls 0..1 (rotation -1..1),        *)
(* satBoost 1.0..2.2 and dprCap 1..2.5.  The initial states are those of a *)
(* mounted component between two frames whose controls hold values inside  *)
(* and outside the sliders' ranges.                                        *)
(***************************************************************************)
SegmentsAny == {1, 12, 200}
ComplexityAny == {0, 20}
PatternAny == {-500, 1500}
SensitivityAny == {-300, 1500}
DprCapAny == {500, 4000}
\* rotation, saturation boost and pixel-ratio cap: all below or all above
RestAny ==
  { [rotationUI |-> -2000, satBoost |-> 500, dprCap |-> 500],
    [rotationUI |-> 2000, satBoost |-> 3000, dprCap |-> 4000] }

KnobsInit ==
  /\ BoostIdle
  /\ cap = [raf |-> MaxRaf - 1, inst |-> MaxInst - 1]
  /\ \E sg \in SegmentsAny, cx \in ComplexityAny, pa \in PatternAny,
        se \in SensitivityAny, o \in RestAny :
       Running([Knobs0 EXCEPT !.segments = sg, !.complexity = cx, !.patternUI = pa,
                              !.rotationUI = o.rotationUI, !.swirlUI = pa,
                              !.sensitivityUI = se, !.satBoost = o.satBoost,
                              !.dprCap = o.dprCap],
               Colors0, Env0, State0)

setSegmentsAny == \E v \in SegmentsAny, t0 \in SetupTimes : SetKnob("segments", v, t0)
setDprCapAny == \E v \in DprCapAny, t0 \in SetupTimes : SetKnob("dprCap", v, t0)

KnobsNext ==
  \/ loop
  \/ loopIntegrate
  \/ loopDims
  \/ loopGeo
  \/ loopRender
  \/ stats
  \/ loopRequest
  \/ setSegmentsAny
  \/ setDprCapAny

SpecKnobs == KnobsInit /\ [][KnobsNext]_vars

\* C10: whatever the controls hold, the segment count, the complexity, the
\* pattern/rotation/swirl/sensitivity controls, the saturation boost and the
\* pixel-ratio cap a frame uses each lie inside their documented range (3..64,
\* 1..16, 0..1 with rotation -1..1, 1.0..2.2, 1..2.5).
C10_KnobsInRange ==
  pc = "render" =>
    /\ 3 <= fr.segs /\ fr.segs <= 64
    /\ 1 <= geo.tab.complexity /\ geo.tab.complexity <= 16
    /\ Milli <= K.satBoost /\ K.satBoost <= 2200
    /\ Milli <= dprRef /\ dprRef <= 2500

\* C10 as amended: a frame uses the segment count clamped to 2..128 and the
\* pattern, |rotation|, swirl and sensitivity controls clamped to 0..1 (so the
\* sensitivity multiplier lies in 0.22..0.72 and no target velocity exceeds its
\* cap times that multiplier, the rotation target carrying the control's sign),
\* and a pixel ratio no greater than dprCap; complexity, satBoost and dprCap
\* themselves are used as the controls hold them.
C10_KnobsClamped ==
  /\ (pc \in {"dims", "geo", "render", "stats", "request"} /\ K.run) =>
       /\ 220 <= fr.tgt.sens /\ fr.tgt.sens <= 720
       /\ 0 <= fr.tgt.pat /\ fr.tgt.pat <= MulM(CapPat, fr.tgt.sens)
       /\ 0 <= fr.tgt.swl /\ fr.tgt.swl <= MulM(CapSwl, fr.tgt.sens)
       /\ Abs(fr.tgt.rot) <= MulM(CapRot, fr.tgt.sens)
       /\ fr.tgt.rot * K.rotationUI >= 0
  /\ pc \in {"geo", "render", "stats", "request"} =>
       /\ SegsLo <= fr.segs /\ fr.segs <= SegsHi
       /\ fr.L >= MinSamples
  /\ pc \in {"render", "stats", "request"} =>
       /\ geo.tab.complexity = K.complexity
       /\ geo.tab.segs = fr.segs
  /\ dprRef <= knobs.dprCap

\* C10 witness: a frame is about to render with 200 segments, complexity 20 and
\* pattern control 1.5 set: it uses 128 segments, the pattern target of a control
\* of 1, and complexity 20
C10_Witness ==
  /\ pc = "render"
  /\ K.run
  /\ K.segments > SegsHi /\ fr.segs = SegsHi
  /\ K.patternUI > Milli /\ fr.tgt.pat = MulM(CapPat, fr.tgt.sens)
  /\ K.complexity > 16 /\ geo.tab.complexity = K.complexity
  /\ fr.inst > 1

(***************************************************************************)
(* The sample count over the sliders' ranges: a mounted component whose    *)
(* segments and complexity are any values the sliders offer renders frames.*)
(***************************************************************************)
SegmentRange == 3 .. 64
ComplexityRange == 1 .. 16

SamplesInit ==
  /\ BoostIdle
  /\ cap = [raf |-> 1 + MaxFrames, inst |-> 1]
  /\ \E sg \in SegmentRange, cx \in ComplexityRange :
       Running([Knobs0 EXCEPT !.segments = sg, !.complexity = cx], Colors0, Env0, State0)

SamplesNext ==
  \/ loop
  \/ loopIntegrate
  \/ loopDims
  \/ loopGeo
  \/ loopRender
  \/ stats
  \/ loopRequest

SpecSamples == SamplesInit /\ [][SamplesNext]_vars

\* C12: for every complexity in 1..16 and every segment count in 3..64 the sample
\* count L a frame computes, and the one the geometry tables are built for, is at
\* least 260.
C12_SampleFloor ==
  /\ (knobs.complexity \in ComplexityRange /\ knobs.segments \in SegmentRange) =>
       geo.tab.L >= 260
  /\ pc \in {"geo", "render", "stats", "request"} =>
       ((K.complexity \in ComplexityRange /\ K.segments \in SegmentRange) =>
          fr.L >= 260)

\* C12 witness: a frame whose tapered sample count is below 260 (64 segments,
\* complexity 1) has computed L = 260
C12_Witness ==
  /\ pc = "geo"
  /\ K.segments = 64
  /\ K.complexity = 1
  /\ taperedSamples(K) < MinSamples
  /\ fr.L = MinSamples

(***************************************************************************)
(* The colour list under the + Color / - Color buttons and the pickers.    *)
(***************************************************************************)
\* effect instances and frame requests a run of colour edits may use (each edit
\* that changes the list restarts the effect)
MaxEdits == 13
\* picker index (the last one is past the end of any list) and picked colours
IndexInputs == {0, 1, 12}
PickInputs == { <<0,0,15,15,0,0>> }

PaletteInit ==
  /\ BoostIdle
  /\ cap = [raf |-> MaxEdits + 1, inst |-> MaxEdits]
  /\ Running(Knobs0, Colors0, Env0, State0)

plusColor == \E t0 \in SetupTimes : addColor(t0)
minusColor == \E t0 \in SetupTimes : removeColor(t0)
pickColor == \E i \in IndexInputs, v \in PickInputs, t0 \in SetupTimes : updateColor(i, v, t0)

PaletteNext ==
  \/ plusColor
  \/ minusColor
  \/ pickColor

SpecPalette == PaletteInit /\ [][PaletteNext]_vars

\* C3: the colour list keeps a length within [3, 12]: addColor at length 12 and
\* removeColor at length 3 leave the list as it is, and updateColor never changes
\* the length.
C3_PaletteLength ==
  /\ [](MinColors <= Len(colors) /\ Len(colors) <= MaxColors)
  /\ [][ /\ (plusColor /\ Len(colors) = MaxColors) => colors' = colors
         /\ (minusColor /\ Len(colors) = MinColors) => colors' = colors
         /\ plusColor => Len(colors') \in {Len(colors), Len(colors) + 1}
         /\ minusColor => Len(colors') \in {Len(colors), Len(colors) - 1}
         /\ pickColor => Len(colors') = Len(colors) ]_vars

\* C3 witness: the list has grown to 12 colours, the first one picked anew
C3_Witness == Len(colors) = MaxColors /\ colors[1] \in PickInputs

\* '#ff0055', '#00d2ff', '#ffd166' (the initial colours), and other inputs
HexInputs ==
  { <<15,15,0,0,5,5>>, <<0,0,13,2,15,15>>, <<15,15,13,1,6,6>>,
    <<15,15,0,0,0,0>>, <<0,0,15,15,0,0>>, <<0,0,0,0,15,15>>,
    <<15,15,15,15,0,0>>, <<15,15,0,0,15,15>>, <<0,0,15,15,15,15>>,
    <<15,15,8,0,0,0>>, <<8,0,0,0,0,0>>, <<15,15,8,0,8,0>>,
    <<15,15,15,15,15,15>>, <<8,0,8,0,8,0>>, <<12,0,6,0,4,0>>, <<15,15,15>> }
BoostInputs == {1000, 1700, 2200}

BoostInit ==
  /\ Constructed(Env0)
  /\ cap = Caps
  /\ gain = Gain0
  /\ wedge = Wedge0
  /\ hexIn \in HexInputs
  /\ boostIn \in BoostInputs
  /\ out1 = <<>>
  /\ out2 = <<>>
  /\ stage = "in"

BoostOnce ==
  /\ stage = "in"
  /\ out1' = boostSaturation(hexIn, boostIn)
  /\ stage' = "once"
  /\ UNCHANGED <<hexIn, boostIn, out2, gain, wedge, appVars>>

BoostTwice ==
  /\ stage = "once"
  /\ out2' = boostSaturation(out1, boostIn)
  /\ stage' = "twice"
  /\ UNCHANGED <<hexIn, boostIn, out1, gain, wedge, appVars>>

BoostNext == BoostOnce \/ BoostTwice
SpecBoost == BoostInit /\ [][BoostNext]_vars

\* C4: on a fully saturated input (HSL s = 1) the boosted saturation stays <= 1
\* and a second boostSaturation returns the hex colour the first one returned.
C4_BoostIdempotent ==
  (stage = "twice" /\ IsHex6(hexIn) /\ satOf(hexIn) = Unit)
    => /\ boostedS(satOf(hexIn), boostIn) <= Unit
       /\ out2 = out1

(***************************************************************************)
(* sliderGain at the ends of the slider, for steepnesses k > 0.            *)
(***************************************************************************)
\* steepnesses in millionths: 0.0001 .. 0.001 and 0.2 .. 4.0 (2.4 among them)
GainKInputs == {100 * i : i \in 1 .. 10} \cup {200000 * i : i \in 1 .. 20}

GainInit ==
  /\ Constructed(Env0)
  /\ cap = Caps
  /\ BoostOff
  /\ wedge = Wedge0
  /\ \E k \in GainKInputs : gain = [Gain0 EXCEPT !.k = k]

GainAtZero ==
  /\ gain.k > 0
  /\ "0" \notin gain.done
  /\ gain' = [gain EXCEPT !.at0 = sliderGain(0, gain.k), !.done = @ \cup {"0"}]
  /\ UNCHANGED <<hexIn, boostIn, out1, out2, stage, wedge, appVars>>

GainAtOne ==
  /\ gain.k > 0
  /\ "1" \notin gain.done
  /\ gain' = [gain EXCEPT !.at1 = sliderGain(Milli, gain.k), !.done = @ \cup {"1"}]
  /\ UNCHANGED <<hexIn, boostIn, out1, out2, stage, wedge, appVars>>

GainNext == GainAtZero \/ GainAtOne
SpecGain == GainInit /\ [][GainNext]_vars

\* C13: for any steepness k > 0, sliderGain(0, k) = 0 and sliderGain(1, k) = 1.
C13_GainEnds ==
  /\ "0" \in gain.done => gain.at0 = 0
  /\ "1" \in gain.done => gain.at1 = Milli

(***************************************************************************)
(* drawWedge: one batched path per colour over the cached samples.         *)
(* G.t is a Float32Array: the cached t of sample j is j / L rounded to a   *)
(* float, here the pair (m, e) that stands for m / 2^(23 + e).             *)
(***************************************************************************)
\* the binary exponent of j / L (0 < j <= L): the least e with j * 2^e >= L
RECURSIVE f32Exp(_, _, _)
f32Exp(a, L, e) == IF a >= L THEN e ELSE f32Exp(2 * a, L, e + 1)

\* n more quotient bits of r / L after the quotient q
RECURSIVE f32Bits(_, _, _, _)
f32Bits(q, r, L, n) ==
  IF n = 0 THEN [q |-> q, r |-> r]
  ELSE IF 2 * r >= L THEN f32Bits(2 * q + 1, 2 * r - L, L, n - 1)
       ELSE f32Bits(2 * q, 2 * r, L, n - 1)

\* G.t[j] = j / L stored in a Float32Array: 24 significant bits, ties to even
f32(j, L) ==
  IF j = 0 THEN [m |-> 0, e |-> 0]
  ELSE LET e == f32Exp(j, L, 0)
           d == f32Bits(1, j * 2^e - L, L, 23)
           up == 2 * d.r > L \/ (2 * d.r = L /\ d.q % 2 = 1)
       IN  [m |-> IF up THEN d.q + 1 ELSE d.q, e |-> e]

\* Math.floor(t * nColors): the product of a float and a small integer is exact
floorTimes(t, n) == IF t.e >= 8 THEN 0 ELSE (t.m * n) \div 2^(23 + t.e)

bucketOfNoMod(j, L, n) == floorTimes(f32(j, L), n)

\* const idx = Math.floor(t * nColors) % nColors
bucketOf(j, L, n) == floorTimes(f32(j, L), n) % n

\* the inner loop for colour cIdx: the samples its path visits (moveTo the first,
\* lineTo the others), j ascending
pathOf(cIdx, L, n) ==
  SelectSeq([i \in 1 .. L + 1 |-> i - 1], LAMBDA j : bucketOf(j, L, n) = cIdx)

\* palette lengths and sample counts (1400 is the sample count of the initial
\* controls)
PaletteLengths == 3 .. 12
SampleInputs == {260, 300, 500, 1400}

WedgeInit ==
  /\ Constructed(Env0)
  /\ cap = Caps
  /\ BoostOff
  /\ gain = Gain0
  /\ \E n \in PaletteLengths, L \in SampleInputs : wedge = [Wedge0 EXCEPT !.n = n, !.L = L]

\* one iteration of `for (let cIdx = 0; cIdx < nColors; cIdx++)`: the path, and
\* its stroke if the path was started
WedgeColor ==
  /\ wedge.cIdx < wedge.n
  /\ LET path == pathOf(wedge.cIdx, wedge.L, wedge.n)
     IN  wedge' = [wedge EXCEPT
                     !.paths = Append(@, path),
                     !.strokes = IF path # <<>> THEN Append(@, wedge.cIdx) ELSE @,
                     !.cIdx = @ + 1]
  /\ UNCHANGED <<hexIn, boostIn, out1, out2, stage, gain, appVars>>

WedgeNext == WedgeColor
SpecWedge == WedgeInit /\ [][WedgeNext]_vars

Visits(path, j) == \E i \in 1 .. Len(path) : path[i] = j
Ascending(path) == \A i \in 1 .. Len(path) - 1 : path[i] < path[i + 1]

\* C15: for every palette length n in 3..12 and every sample count L, when the
\* colour loop is over each sample j in 0..L has been visited by exactly one
\* colour's path, that of colour floor(t_j * n) mod n, each path visits its
\* samples in increasing order, and each colour was stroked at most once.
C15_ColourPaths ==
  /\ \A c \in 1 .. Len(wedge.paths) : Ascending(wedge.paths[c])
  /\ Len(wedge.strokes) <= wedge.cIdx
  /\ \A a, b \in 1 .. Len(wedge.strokes) :
       wedge.strokes[a] = wedge.strokes[b] => a = b
  /\ (wedge.n > 0 /\ wedge.cIdx = wedge.n) =>
       \A j \in 0 .. wedge.L :
         /\ Cardinality({c \in 1 .. wedge.n : Visits(wedge.paths[c], j)}) = 1
         /\ Visits(wedge.paths[1 + (floorTimes(f32(j, wedge.L), wedge.n) % wedge.n)], j)

\* C15 witness: the loop over 12 colours is over and has stroked each; the path
\* of colour 0 ends with the last sample (t = 1), and a sample whose cached t is
\* the float below j / L (j = 125 of L = 300) is in the path of colour 4, where
\* j * n / L is 5
C15_Witness ==
  /\ wedge.n = 12
  /\ wedge.cIdx = 12
  /\ wedge.L = 300
  /\ Len(wedge.strokes) = 12
  /\ wedge.paths[1][Len(wedge.paths[1])] = wedge.L
  /\ \E j \in 0 .. wedge.L :
       (j * wedge.n) \div wedge.L # floorTimes(f32(j, wedge.L), wedge.n)
====
